---- MODULE Spec2Model ----
(***************************************************************************)
(* Model of market.py: the module-level start-up (load the hourly CSV,     *)
(* add the EMA columns, split by calendar year) and the Dash callback      *)
(* display_candlestick that serves one year's candlesticks and up to five  *)
(* indicator lines.                                                        *)
(*                                                                         *)
(* Real numbers are kept exact: a price is an integer and an EMA value is  *)
(* a reduced fraction <<numerator, denominator>>.  A timestamp is a record *)
(* [y, m, d, s, ns] ordered lexicographically.                             *)
(***************************************************************************)
EXTENDS Integers, Sequences, FiniteSets, TLC

VARIABLES csv, pc, k, df, split_data, calls

vars == <<csv, pc, k, df, split_data, calls>>

(* ---------------------------- bounds ---------------------------------- *)

\* longest input file (rows of btc_hourly_data.csv) that is enumerated
MaxRows == 2

\* number of request handlers that may run display_candlestick at once
NumCallers == 2

Callers == 1..NumCallers

(* ------------------------- small helpers ------------------------------ *)

Min(a, b) == IF a <= b THEN a ELSE b

RECURSIVE Gcd(_, _)
Gcd(a, b) == IF b = 0 THEN a ELSE Gcd(b, a % b)

RECURSIVE Pow(_, _)
Pow(b, e) == IF e = 0 THEN 1 ELSE b * Pow(b, e - 1)

\* a fraction of positive denominator, reduced to lowest terms
Norm(n, d) ==
    LET g == Gcd(IF n < 0 THEN -n ELSE n, d)
    IN  <<n \div g, d \div g>>

\* the sequence s restricted to the (ascending) positions in P
RECURSIVE Pick(_, _)
Pick(s, P) ==
    IF P = {} THEN << >>
    ELSE LET hi == CHOOSE p \in P : \A q \in P : q <= p
         IN  Append(Pick(s, P \ {hi}), s[hi])

(* --------------------------- timestamps ------------------------------- *)

Stamp(y, m, d, s) == [y |-> y, m |-> m, d |-> d, s |-> s, ns |-> 0]

TsLess(a, b) ==
    \/ a.y < b.y
    \/ a.y = b.y /\ a.m < b.m
    \/ a.y = b.y /\ a.m = b.m /\ a.d < b.d
    \/ a.y = b.y /\ a.m = b.m /\ a.d = b.d /\ a.s < b.s
    \/ a.y = b.y /\ a.m = b.m /\ a.d = b.d /\ a.s = b.s /\ a.ns < b.ns

TsLeq(a, b) == a = b \/ TsLess(a, b)

\* DatetimeIndex.is_monotonic_increasing: non-decreasing
is_monotonic_increasing(index) ==
    \A i \in 1..(Len(index) - 1) : TsLeq(index[i], index[i + 1])

\* variant: the right bound is the first instant of the day as well
cast_slice_bound_start(label, side) ==
    [y |-> label.y, m |-> label.m, d |-> label.d, s |-> 0, ns |-> 0]

\* DatetimeIndex.maybe_cast_slice_bound for a day-resolution string
\* 'Y-MM-DD': the left bound is the first instant of that day, the right
\* bound the last one (23:59:59.999999999)
maybe_cast_slice_bound(label, side) ==
    IF side = "left"
    THEN [y |-> label.y, m |-> label.m, d |-> label.d, s |-> 0, ns |-> 0]
    ELSE [y |-> label.y, m |-> label.m, d |-> label.d, s |-> 86399,
          ns |-> 999999999]

(* ----------------------- program constants ---------------------------- *)

\* TechnicalIndicator.intervals
intervals == <<9, 12, 21, 30, 50, 80, 100, 200>>

\* f'ema_{interval}'
col_ema(interval) == "ema_" \o ToString(interval)

years == <<2017, 2018, 2019, 2020, 2021, 2022, 2023, 2024>>

\* f'{year}_data'
data_key(year) == ToString(year) \o "_data"

color_palettes == <<"orange", "purple", "brown", "blue", "olive">>

(* --------------------------- data frames ------------------------------ *)

\* a missing value: the fraction with denominator zero
NaN == <<0, 0>>

\* the value of a name that is not bound yet
Unbound == [index |-> << >>, cols |-> << >>]

\* pd.to_datetime of one 'YYYY-MM-DD HH:MM:SS' field <<y, m, d, s>>
to_datetime(text) == Stamp(text[1], text[2], text[3], text[4])

\* pd.read_csv, the date column parsed and made the index
read_csv(file) ==
    [index |-> [i \in 1..Len(file) |-> to_datetime(file[i].date)],
     cols  |-> [c \in {"open", "high", "low", "close"} |->
                  [i \in 1..Len(file) |-> file[i][c]]]]

\* Series.ewm(span).mean() at position t (1-based), pandas' default
\* adjust=True: the weighted mean of x[t], x[t-1], ..., x[1] with weights
\* 1, (1-a), ..., (1-a)^(t-1) where 1-a = (span-1)/(span+1).  Both sums are
\* scaled by (span+1)^(t-1) to stay in the integers.
RECURSIVE EwmNum(_, _, _)
EwmNum(x, span, t) ==
    IF t = 1 THEN x[1]
    ELSE Pow(span + 1, t - 1) * x[t] + (span - 1) * EwmNum(x, span, t - 1)

RECURSIVE EwmDen(_, _)
EwmDen(span, t) ==
    IF t = 1 THEN 1
    ELSE Pow(span + 1, t - 1) + (span - 1) * EwmDen(span, t - 1)

\* variant: a warm-up row, the first observation yields no value
calc_ema_warmup(data, spans) ==
    LET n == Len(data.cols["close"])
    IN  [index  |-> [t \in 1..(n - 1) |-> data.index[t + 1]],
         values |-> [t \in 1..(n - 1) |->
                       Norm(EwmNum(data.cols["close"], spans, t + 1),
                            EwmDen(spans, t + 1))]]

\* TechnicalIndicator.calc_ema: a Series on the index of the frame
calc_ema(data, spans) ==
    [index  |-> data.index,
     values |-> [t \in 1..Len(data.cols["close"]) |->
                   Norm(EwmNum(data.cols["close"], spans, t),
                        EwmDen(spans, t))]]

\* DataFrame.__setitem__ with a Series: the values are aligned on the
\* frame's index; a label the Series lacks gets NaN
setitem(frame, col, series) ==
    LET aligned ==
          IF series.index = frame.index THEN series.values
          ELSE [i \in 1..Len(frame.index) |->
                  IF \E j \in 1..Len(series.index) :
                        series.index[j] = frame.index[i]
                  THEN series.values[CHOOSE j \in 1..Len(series.index) :
                                        series.index[j] = frame.index[i]]
                  ELSE NaN]
    IN  [index |-> frame.index,
         cols  |-> [c \in DOMAIN frame.cols \cup {col} |->
                      IF c = col THEN aligned ELSE frame.cols[c]]]

\* the rows of a frame at the positions P, all columns kept
take(frame, P) ==
    [index |-> Pick(frame.index, P),
     cols  |-> [c \in DOMAIN frame.cols |-> Pick(frame.cols[c], P)]]

\* Index.slice_indexer on a monotonic index: searchsorted(start, 'left')
\* up to searchsorted(end, 'right')
slice_locs(index, start, end) ==
    LET lo == Cardinality({i \in 1..Len(index) : TsLess(index[i], start)})
        hi == Cardinality({i \in 1..Len(index) : TsLeq(index[i], end)})
    IN  (lo + 1)..hi

\* DatetimeIndex.slice_indexer on a non-monotonic index: the boolean mask
mask_locs(index, start, end) ==
    {i \in 1..Len(index) : TsLeq(start, index[i]) /\ TsLeq(index[i], end)}

\* variant: the window runs on to the first day of the next year
till_next(year) == [y |-> year + 1, m |-> 1, d |-> 1]

\* since, till = f'{year}-01-01', f'{year}-12-31'
since(year) == [y |-> year, m |-> 1, d |-> 1]
till(year) == [y |-> year, m |-> 12, d |-> 31]

\* self.data.loc[since:till] when the slice is answered
loc(frame, year) ==
    LET start == maybe_cast_slice_bound(since(year), "left")
        end   == maybe_cast_slice_bound(till(year), "right")
    IN  IF is_monotonic_increasing(frame.index)
        THEN take(frame, slice_locs(frame.index, start, end))
        ELSE take(frame, mask_locs(frame.index, start, end))

\* d[key] = value
put(d, key, value) ==
    [x \in DOMAIN d \cup {key} |-> IF x = key THEN value ELSE d[x]]

(* ------------------------------ inputs -------------------------------- *)

\* date fields of the input file: the instants around the year boundaries
Dates ==
    { <<2016, 12, 31, 86399>>, <<2017, 1, 1, 0>>, <<2017, 12, 31, 0>>,
      <<2017, 12, 31, 86399>>, <<2018, 1, 1, 0>>, <<2025, 1, 1, 0>> }

\* <<open, high, low, close>>; the last one has high < low
Candles == { <<1, 1, 1, 1>>, <<1, 2, 1, 2>>, <<2, 1, 2, 2>> }

Row(date, candle) ==
    [date |-> date, open |-> candle[1], high |-> candle[2],
     low |-> candle[3], close |-> candle[4]]

CsvRows == { Row(date, candle) : date \in Dates, candle \in Candles }

\* the rows of the files the full program is run on
ServedRows ==
    { Row(<<2017, 12, 31, 86399>>, <<1, 1, 1, 1>>),
      Row(<<2018, 1, 1, 0>>, <<1, 2, 1, 2>>) }

Files(rows) == UNION { [1..n -> rows] : n \in 0..MaxRows }

(* ----------------------------- start-up ------------------------------- *)

NoCall ==
    [st |-> "idle", dark_mode |-> << >>, selected_indicators |-> << >>,
     selected_year |-> "", year_data |-> Unbound, fig |-> << >>,
     out |-> << >>]

InitWith(rows) ==
    /\ csv \in Files(rows)
    /\ pc = "load"
    /\ k = 0
    /\ df = Unbound
    /\ split_data = << >>
    /\ calls = [c \in Callers |-> NoCall]

\* lines 29-31: read the file, parse the dates, index by date
Load ==
    /\ pc = "load"
    /\ df' = read_csv(csv)
    /\ pc' = "indicators"
    /\ k' = 0
    /\ UNCHANGED <<csv, split_data, calls>>

\* one turn of the loop of TechnicalIndicator.__init__ (df is self.data)
AddEma ==
    /\ pc = "indicators"
    /\ k < Len(intervals)
    /\ LET interval == intervals[k + 1]
       IN  df' = setitem(df, col_ema(interval), calc_ema(df, interval))
    /\ k' = k + 1
    /\ UNCHANGED <<csv, pc, split_data, calls>>

\* variant: the splitter is built without waiting for the indicators
NewSplitterEarly ==
    /\ pc = "indicators"
    /\ split_data' = << >>
    /\ pc' = "split"
    /\ k' = 0
    /\ UNCHANGED <<csv, df, calls>>

\* lines 36-41: the constructor has returned; TimeSeriesSplit(df, years)
\* starts with an empty split_data
NewSplitter ==
    /\ pc = "indicators"
    /\ k = Len(intervals)
    /\ split_data' = << >>
    /\ pc' = "split"
    /\ k' = 0
    /\ UNCHANGED <<csv, df, calls>>

\* one turn of the loop of split_by_intervals.  On a non-monotonic index
\* pandas either refuses the slice (KeyError, raised at the first turn:
\* the end-of-day bound is never a label of the index) or answers it with
\* the boolean mask, depending on the version installed.
SplitYear ==
    /\ pc = "split"
    /\ k < Len(years)
    /\ \/ /\ split_data' = put(split_data, data_key(years[k + 1]),
                               loc(df, years[k + 1]))
          /\ k' = k + 1
          /\ pc' = pc
       \/ /\ ~is_monotonic_increasing(df.index)
          /\ k = 0
          /\ pc' = "crashed"
          /\ UNCHANGED <<k, split_data>>
    /\ UNCHANGED <<csv, df, calls>>

\* lines 42-203: split_data is bound, the layout is built, the app runs
Serve ==
    /\ pc = "split"
    /\ k = Len(years)
    /\ pc' = "serving"
    /\ UNCHANGED <<csv, k, df, split_data, calls>>

StartUp == Load \/ AddEma \/ NewSplitter \/ SplitYear \/ Serve

InitStartUp == InitWith(CsvRows)

SpecStartUp == InitStartUp /\ [][StartUp]_vars

(* ------------------------ display_candlestick ------------------------- *)

\* the display cap
MaxShown == 5

\* the callback's inputs <<dark_mode, selected_indicators, selected_year>>
Requests ==
    { << << >>,       <<"ema_12", "ema_9">>, "2017" >>,
      << <<"dark">>,  <<"ema_12", "ema_9">>, "2017" >>,
      << << >>,       << >>,                 "2018" >>,
      << << >>,       <<"ema_9", "ema_12", "ema_21", "ema_30", "ema_50",
                        "ema_80", "ema_100">>, "2018" >>,
      << << >>,       <<"ema_200", "ema_100", "ema_80", "ema_50", "ema_30",
                        "ema_999">>, "2017" >>,
      << << >>,       <<"ema_9", "ema_999">>, "2017" >>,
      << <<"dark">>,  <<"ema_9">>,            "1999" >> }

\* go.Candlestick(x=year_data.index, open=..., ..., name='Candlestick')
Candlestick(year_data) ==
    [type |-> "candlestick", name |-> "Candlestick", x |-> year_data.index,
     open |-> year_data.cols["open"], high |-> year_data.cols["high"],
     low |-> year_data.cols["low"], close |-> year_data.cols["close"]]

\* go.Scatter(x=year_data.index, y=year_data[indicator_col], mode='lines',
\*            name=indicator_col, line=dict(color=color_palettes[i % 5]))
\* with i counted from 0
Scatter(year_data, i, indicator_col) ==
    [type |-> "scatter", mode |-> "lines", name |-> indicator_col,
     x |-> year_data.index, y |-> year_data.cols[indicator_col],
     color |-> color_palettes[(i % Len(color_palettes)) + 1]]

\* variant: selected_indicators[-5:]
shown_last(selected_indicators) ==
    SubSeq(selected_indicators,
           Len(selected_indicators)
             - Min(Len(selected_indicators), MaxShown) + 1,
           Len(selected_indicators))

\* selected_indicators[:5]
shown(selected_indicators) ==
    SubSeq(selected_indicators, 1, Min(Len(selected_indicators), MaxShown))

Free(c) == calls[c].st \in {"idle", "returned", "raised"}

\* a KeyError leaves the callback: its locals are gone
Raised(req) ==
    [NoCall EXCEPT !.st = "raised", !.dark_mode = req[1],
                   !.selected_indicators = req[2], !.selected_year = req[3]]

\* variant: year_data = split_data.pop(key)
LookupPop(c, req) ==
    /\ pc = "serving"
    /\ Free(c)
    /\ LET key == req[3] \o "_data"
       IN  IF key \in DOMAIN split_data
           THEN /\ calls' = [calls EXCEPT ![c] =
                      [NoCall EXCEPT !.st = "lookup", !.dark_mode = req[1],
                          !.selected_indicators = req[2],
                          !.selected_year = req[3],
                          !.year_data = split_data[key],
                          !.fig = <<Candlestick(split_data[key])>>]]
                /\ split_data' = [x \in DOMAIN split_data \ {key} |->
                                    split_data[x]]
           ELSE /\ calls' = [calls EXCEPT ![c] = Raised(req)]
                /\ split_data' = split_data
    /\ UNCHANGED <<csv, pc, k, df>>

\* lines 103-112: the year's partition is looked up (KeyError for a key
\* split_data lacks) and the figure starts with the candlesticks
Lookup(c, req) ==
    /\ pc = "serving"
    /\ Free(c)
    /\ LET key == req[3] \o "_data"
       IN  IF key \in DOMAIN split_data
           THEN calls' = [calls EXCEPT ![c] =
                    [NoCall EXCEPT !.st = "lookup", !.dark_mode = req[1],
                        !.selected_indicators = req[2],
                        !.selected_year = req[3],
                        !.year_data = split_data[key],
                        !.fig = <<Candlestick(split_data[key])>>]]
           ELSE calls' = [calls EXCEPT ![c] = Raised(req)]
    /\ UNCHANGED <<csv, pc, k, df, split_data>>

\* variant: y=year_data.pop(indicator_col), on the stored partition
TracesDrop(c) ==
    /\ calls[c].st = "lookup"
    /\ LET call == calls[c]
           names == shown(call.selected_indicators)
           key == call.selected_year \o "_data"
           used == {names[i] : i \in 1..Len(names)}
       IN  IF \A i \in 1..Len(names) : names[i] \in DOMAIN call.year_data.cols
           THEN /\ calls' = [calls EXCEPT ![c].st = "traces",
                      ![c].fig = call.fig \o
                          [i \in 1..Len(names) |->
                              Scatter(call.year_data, i - 1, names[i])]]
                /\ split_data' = [split_data EXCEPT ![key].cols =
                      [col \in DOMAIN split_data[key].cols \ used |->
                          split_data[key].cols[col]]]
           ELSE /\ calls' = [calls EXCEPT ![c] =
                      Raised(<<call.dark_mode, call.selected_indicators,
                               call.selected_year>>)]
                /\ split_data' = split_data
    /\ UNCHANGED <<csv, pc, k, df>>

\* lines 114-121: the loop over the first five names, each adding one
\* line; year_data[indicator_col] is a KeyError for a column the
\* partition lacks
Traces(c) ==
    /\ calls[c].st = "lookup"
    /\ LET call == calls[c]
           names == shown(call.selected_indicators)
       IN  IF \A i \in 1..Len(names) : names[i] \in DOMAIN call.year_data.cols
           THEN calls' = [calls EXCEPT ![c].st = "traces",
                    ![c].fig = call.fig \o
                        [i \in 1..Len(names) |->
                            Scatter(call.year_data, i - 1, names[i])]]
           ELSE calls' = [calls EXCEPT ![c] =
                    Raised(<<call.dark_mode, call.selected_indicators,
                             call.selected_year>>)]
    /\ UNCHANGED <<csv, pc, k, df, split_data>>

\* lines 123-138: the template is chosen and the figure returned
Layout(c) ==
    /\ calls[c].st = "traces"
    /\ LET call == calls[c]
           dark == \E i \in 1..Len(call.dark_mode) : call.dark_mode[i] = "dark"
       IN  calls' = [calls EXCEPT ![c] =
               [NoCall EXCEPT !.st = "returned",
                   !.dark_mode = call.dark_mode,
                   !.selected_indicators = call.selected_indicators,
                   !.selected_year = call.selected_year,
                   !.out = << [data |-> call.fig,
                               template |-> IF dark THEN "plotly_dark"
                                            ELSE "plotly",
                               xaxis_rangeslider_visible |-> FALSE,
                               height |-> 800],
                              IF dark THEN "dark-mode" ELSE "light-mode" >>]]
    /\ UNCHANGED <<csv, pc, k, df, split_data>>

Query ==
    \E c \in Callers :
        \/ \E req \in Requests : Lookup(c, req)
        \/ Traces(c)
        \/ Layout(c)

Init == InitWith(ServedRows)

Next == StartUp \/ Query

Spec == Init /\ [][Next]_vars

(* ============================== claims ================================ *)

\* the names IndicatorComputer is configured to produce
EmaNames ==
    {"ema_9", "ema_12", "ema_21", "ema_30", "ema_50", "ema_80", "ema_100",
     "ema_200"}

\* the span a produced name stands for
SpanOf(name) == CHOOSE w \in {9, 12, 21, 30, 50, 80, 100, 200} :
                    name = "ema_" \o ToString(w)

ConfiguredYears == 2017..2024

KeyOf(year) == ToString(year) \o "_data"

Stamps(frame) == {frame.index[i] : i \in 1..Len(frame.index)}

AscendingUnique(index) ==
    \A i \in 1..(Len(index) - 1) : TsLess(index[i], index[i + 1])

Done(c) == calls[c].st \in {"returned", "raised"}

Max4(a, b, c, d) ==
    CHOOSE x \in {a, b, c, d} : \A z \in {a, b, c, d} : z <= x

Min4(a, b, c, d) ==
    CHOOSE x \in {a, b, c, d} : \A z \in {a, b, c, d} : x <= z

\* the ingestion contract of the data model: ascending unique timestamps,
\* high the largest and low the smallest of the four prices
OhlcOk(r) ==
    /\ r.high = Max4(r.open, r.high, r.low, r.close)
    /\ r.low = Min4(r.open, r.high, r.low, r.close)

WellFormed(file) ==
    /\ AscendingUnique([i \in 1..Len(file) |-> to_datetime(file[i].date)])
    /\ \A i \in 1..Len(file) : OhlcOk(file[i])

\* the rows of df inside the calendar year, written out in seconds
InYear(ts, year) ==
    /\ TsLeq(Stamp(year, 1, 1, 0), ts)
    /\ TsLeq(ts, Stamp(year, 12, 31, 86399))

Partition(year) == split_data[KeyOf(year)]

Split ==
    /\ pc = "serving"
    /\ \A year \in ConfiguredYears : KeyOf(year) \in DOMAIN split_data

(* C1: for every close sequence and every configured span w the series     *)
(* ema_w starts at close[0] and every later value is                       *)
(* (2/(w+1))*close[t] + (1 - 2/(w+1))*ema[t-1].                            *)
C1_EmaRecurrence ==
    WellFormed(csv) =>
    \A name \in EmaNames \cap DOMAIN df.cols :
        LET w == SpanOf(name)
            ema == df.cols[name]
            close == df.cols["close"]
        IN  /\ Len(ema) >= 1 => ema[1] = <<close[1], 1>>
            /\ \A t \in 2..Len(ema) :
                  ema[t] = Norm(2 * close[t] * ema[t - 1][2]
                                  + (w - 1) * ema[t - 1][1],
                                (w + 1) * ema[t - 1][2])

(* C2: after split_by_intervals has run on a series with ascending unique  *)
(* timestamps, no timestamp is in the partitions of two different years    *)
(* and the partitions' timestamps together are exactly the input           *)
(* timestamps whose calendar year is configured.                           *)
C2_DisjointCover ==
    (Split /\ AscendingUnique(df.index)) =>
        /\ \A y1, y2 \in ConfiguredYears :
              y1 # y2 => Stamps(Partition(y1)) \cap Stamps(Partition(y2)) = {}
        /\ UNION {Stamps(Partition(year)) : year \in ConfiguredYears}
              = {ts \in Stamps(df) : ts.y \in ConfiguredYears}

\* two rows of two different configured years and one row of no
\* configured year have been split
C2_Witness ==
    /\ Split
    /\ AscendingUnique(df.index)
    /\ Stamps(Partition(2017)) # {}
    /\ Stamps(Partition(2018)) # {}

C2_WitnessOutside ==
    /\ Split
    /\ AscendingUnique(df.index)
    /\ \E ts \in Stamps(df) : ts.y \notin ConfiguredYears
    /\ \E year \in ConfiguredYears : Stamps(Partition(year)) # {}

(* C3: the partition of a configured year Y holds exactly the input rows   *)
(* from Y-01-01 00:00:00 through Y-12-31 23:59:59, in input order and with *)
(* all columns; so any row of Y-12-31 is in partition Y, and a row at      *)
(* (Y+1)-01-01 00:00:00 is in no partition but that of Y+1.                *)
C3_YearWindow ==
    \A year \in ConfiguredYears :
        KeyOf(year) \in DOMAIN split_data =>
            /\ Partition(year) =
                 take(df, {i \in 1..Len(df.index) : InYear(df.index[i], year)})
            /\ \A ts \in Stamps(df) :
                  /\ (ts.y = year /\ ts.m = 12 /\ ts.d = 31)
                        => ts \in Stamps(Partition(year))
                  /\ ts = Stamp(year + 1, 1, 1, 0)
                        => ts \notin Stamps(Partition(year))

\* the last second of 2017 is in partition 2017 and the first instant of
\* 2018 in partition 2018
C3_Witness ==
    /\ Split
    /\ Stamp(2017, 12, 31, 86399) \in Stamps(Partition(2017))
    /\ Stamp(2018, 1, 1, 0) \in Stamps(Partition(2018))
    /\ Stamp(2018, 1, 1, 0) \in Stamps(df)

\* every ema column of a frame has one defined value per row
Aligned(frame) ==
    \A name \in EmaNames \cap DOMAIN frame.cols :
        /\ Len(frame.cols[name]) = Len(frame.index)
        /\ Len(frame.cols[name]) = Len(frame.cols["close"])
        /\ \A i \in 1..Len(frame.cols[name]) : frame.cols[name][i] # NaN

(* C4: every ema_w series has the length and the timestamp index of the    *)
(* close prices, and in every year partition every ema_w column has one    *)
(* value per row, at the timestamps of open/high/low/close.                *)
C4_IndexAligned ==
    /\ pc # "load" =>
          \A w \in {9, 12, 21, 30, 50, 80, 100, 200} :
              /\ calc_ema(df, w).index = df.index
              /\ Len(calc_ema(df, w).values) = Len(df.cols["close"])
    /\ Aligned(df)
    /\ \A key \in DOMAIN split_data :
          /\ Aligned(split_data[key])
          /\ EmaNames \cap DOMAIN df.cols \subseteq DOMAIN split_data[key].cols
          /\ AscendingUnique(df.index) =>
                \A name \in EmaNames \cap DOMAIN df.cols :
                    \A i \in 1..Len(split_data[key].index) :
                        \E j \in 1..Len(df.index) :
                            /\ df.index[j] = split_data[key].index[i]
                            /\ df.cols[name][j] = split_data[key].cols[name][i]
                            /\ df.cols["close"][j]
                                  = split_data[key].cols["close"][i]

\* a partition of two rows carries all eight indicator columns
C4_Witness ==
    /\ Split
    /\ \E year \in ConfiguredYears :
          /\ Len(Partition(year).index) = 2
          /\ EmaNames \subseteq DOMAIN Partition(year).cols

(* C5: a query that returns a figure carries, after the candlesticks, the  *)
(* series of exactly the first min(n, 5) of its n indicator names, in the  *)
(* caller's order; names from the sixth on add no series.                  *)
C5_FirstFive ==
    \A c \in Callers :
        LET call == calls[c]
            sel == call.selected_indicators
            n == Min(Len(sel), 5)
            part == split_data[call.selected_year \o "_data"]
        IN  /\ call.st = "raised" => call.out = << >>
            /\ call.st = "returned" =>
                  LET data == call.out[1].data
                  IN  /\ Len(data) = 1 + n
                      /\ data[1].type = "candlestick"
                      /\ \A i \in 1..n :
                            /\ data[i + 1].type = "scatter"
                            /\ data[i + 1].name = sel[i]
                            /\ data[i + 1].x = part.index
                            /\ data[i + 1].y = part.cols[sel[i]]

\* a request of seven names has returned its figure
C5_Witness ==
    \E c \in Callers :
        /\ calls[c].st = "returned"
        /\ Len(calls[c].selected_indicators) = 7
        /\ Len(calls[c].out[1].data) = 6
        /\ Len(calls[c].out[1].data[2].x) >= 1

YearLabels == {ToString(year) : year \in ConfiguredYears}

(* C6: a query whose year is not configured, or whose indicator list      *)
(* holds, at any position, a name that was not produced, ends in an error  *)
(* and returns no figure.                                                  *)
C6_UnknownRejected ==
    \A c \in Callers :
        calls[c].st = "returned" =>
            /\ calls[c].selected_year \in YearLabels
            /\ \A i \in 1..Len(calls[c].selected_indicators) :
                  calls[c].selected_indicators[i] \in EmaNames

\* what the callback does reject: an unknown year, and an unknown name
\* among the first five
C6_RejectedWithinCap ==
    \A c \in Callers :
        calls[c].st = "returned" =>
            /\ calls[c].selected_year \in YearLabels
            /\ \A i \in 1..Min(Len(calls[c].selected_indicators), 5) :
                  calls[c].selected_indicators[i] \in EmaNames

(* C7: every call of display_candlestick, returning or raising, leaves df  *)
(* and split_data as they were.                                            *)
C7_QueryFrame ==
    [][pc = "serving" => (df' = df /\ split_data' = split_data)]_vars

\* one call has returned and another has raised, on non-empty partitions
C7_Witness ==
    /\ Split
    /\ \E year \in ConfiguredYears : Len(Partition(year).index) >= 1
    /\ \E a, b \in Callers :
          calls[a].st = "returned" /\ calls[b].st = "raised"

(* C8: two calls with the same year, indicator list and dark-mode value    *)
(* end the same way with the same result, however they were interleaved    *)
(* with each other and with other calls.                                   *)
C8_SameInputsSameResult ==
    \A a, b \in Callers :
        ( /\ Done(a) /\ Done(b)
          /\ calls[a].dark_mode = calls[b].dark_mode
          /\ calls[a].selected_indicators = calls[b].selected_indicators
          /\ calls[a].selected_year = calls[b].selected_year )
        => (calls[a].st = calls[b].st /\ calls[a].out = calls[b].out)

\* two handlers have returned the figure of the same request
C8_Witness ==
    \E a, b \in Callers :
        /\ a # b
        /\ calls[a].st = "returned" /\ calls[b].st = "returned"
        /\ calls[a].selected_indicators = calls[b].selected_indicators
        /\ calls[a].selected_year = calls[b].selected_year
        /\ calls[a].dark_mode = calls[b].dark_mode
        /\ Len(calls[a].out[1].data) >= 3
        /\ Len(calls[a].out[1].data[1].x) >= 1

(* C9: an input with non-monotonic or duplicate timestamps, or a row that  *)
(* breaks the high/low bounds, ends initialization in an error: no         *)
(* indicator series, no partition and no served query come from it.        *)
C9_BadInputRejected ==
    ~WellFormed(csv) =>
        /\ pc \notin {"split", "serving"}
        /\ EmaNames \cap DOMAIN df.cols = {}
        /\ split_data = << >>
        /\ \A c \in Callers : calls[c].st = "idle"

\* start-up has completed on an input that breaks the ingestion contract
\* and a query has been answered from it
C9_ServedFromBadInput ==
    /\ ~WellFormed(csv)
    /\ pc = "serving"
    /\ \E c \in Callers : calls[c].st = "returned"

(* C10: start-up runs load, then the eight ema columns, then the split;    *)
(* every entry of split_data, one per configured year under '<year>_data', *)
(* has all eight columns, and so has every partition a query looks up.     *)
C10_InitOrder ==
    /\ pc = "load" => (df = Unbound /\ split_data = << >>)
    /\ pc = "indicators" =>
          /\ split_data = << >>
          /\ {"open", "high", "low", "close"} \subseteq DOMAIN df.cols
          /\ Cardinality(EmaNames \cap DOMAIN df.cols) = k
    /\ pc \in {"split", "serving", "crashed"} => EmaNames \subseteq DOMAIN df.cols
    /\ \A key \in DOMAIN split_data :
          EmaNames \subseteq DOMAIN split_data[key].cols
    /\ pc = "split" =>
          DOMAIN split_data = {KeyOf(2016 + i) : i \in 1..k}
    /\ pc = "serving" =>
          DOMAIN split_data = {KeyOf(year) : year \in ConfiguredYears}
    /\ \A c \in Callers :
          /\ calls[c].st # "idle" => pc = "serving"
          /\ calls[c].st \in {"lookup", "traces"} =>
                EmaNames \subseteq DOMAIN calls[c].year_data.cols

\* a query holds a non-empty partition it has just looked up
C10_Witness ==
    /\ Split
    /\ \E c \in Callers :
          /\ calls[c].st = "lookup"
          /\ Len(calls[c].year_data.index) >= 1
          /\ EmaNames \subseteq DOMAIN calls[c].year_data.cols

====
